---- MODULE Spec2Model ----
(***************************************************************************)
(* Model of the mist.io DNS controller (BaseDNSController), the Zone and   *)
(* Record documents it persists, and the per-provider network controllers. *)
(*                                                                         *)
(* Strings whose characters matter (domains, rdata values) are tuples of   *)
(* one-character strings, so that endswith, the regular expression of      *)
(* _create_zone__for_cloud and the address parser are computed.            *)
(***************************************************************************)
EXTENDS Integers, Sequences, FiniteSets, TLC

VARIABLES zones, records, now, pc, frame, last, ncalls, active,
          networks, subnets, netCalls, netLast

vars == <<zones, records, now, pc, frame, last, ncalls, active,
          networks, subnets, netCalls, netLast>>

dnsVars == <<zones, records, now, pc, frame, last, ncalls, active>>
netVars == <<networks, subnets, netCalls, netLast>>

(***************************************************************************)
(* Bounds of the model.                                                    *)
(***************************************************************************)
\* longest provider listing response
MaxNodes == 2
\* number of public calls made by one caller in the sequential specification
MaxCalls == 3
\* largest value of the clock read by datetime.utcnow()
MaxClock == 3
\* longest rdata list handed to Record.save() in the validation specification
MaxRdata == 2
\* number of create_network / delete_network calls in the network specification
MaxNetCalls == 2

Callers == {1, 2}

\* self.cloud of the controller
TheCloud == "cloud1"

(***************************************************************************)
(* Character strings.                                                      *)
(***************************************************************************)
Str_a == <<"a">>
Str_a_dot == <<"a", ".">>
Str_a_dot_nl == <<"a", ".", "\n">>
Str_b_dot == <<"b", ".">>

\* str.endswith(ch)
EndsWith(s, ch) == Len(s) > 0 /\ s[Len(s)] = ch

\* re.match(".*\.$", s): ".*" takes no newline, "$" matches at the end of the
\* string and also just before a newline that ends the string
ReMatchDotEnd(s) ==
    \E k \in 1..Len(s) :
        /\ s[k] = "."
        /\ \A j \in 1..(k - 1) : s[j] # "\n"
        /\ \/ k = Len(s)
           \/ (k = Len(s) - 1 /\ s[Len(s)] = "\n")

(***************************************************************************)
(* Provider faults and their translation.                                  *)
(***************************************************************************)
ProviderExceptions ==
    {"InvalidCredsError", "SSLError", "ZoneDoesNotExistError",
     "RecordDoesNotExistError", "Exception"}

\* isinstance(exc, cls) for the classes named in the except clauses: the four
\* provider classes are unrelated to one another, all derive from Exception
IsInstance(exc, cls) == cls = exc \/ cls = "Exception"

\* One except clause: the class it catches, whether it binds the exception
\* ("as exc"), and the fault its body raises (built from exc when usesExc).
Handler(cls, binds, uses, raises) ==
    [cls |-> cls, bindsExc |-> binds, usesExc |-> uses, raises |-> raises]

\* What the body of an except clause raises: a body that reads the local `exc`
\* of a clause that did not bind it fails on the unbound local
HandlerRaises(h) ==
    IF h.usesExc /\ ~h.bindsExc THEN "UnboundLocalError" ELSE h.raises

\* try/except: the first clause whose class matches is the one that runs
Classify(handlers, exc) ==
    LET k == CHOOSE i \in 1..Len(handlers) :
                 /\ IsInstance(exc, handlers[i].cls)
                 /\ \A j \in 1..(i - 1) : ~IsInstance(exc, handlers[j].cls)
    IN  HandlerRaises(handlers[k])

ListZonesHandlers ==
    << Handler("InvalidCredsError", TRUE, FALSE, "CloudUnauthorizedError"),
       Handler("SSLError", TRUE, TRUE, "CloudUnavailableError"),
       Handler("Exception", TRUE, TRUE, "CloudUnavailableError") >>

ListRecordsHandlers ==
    << Handler("InvalidCredsError", TRUE, FALSE, "CloudUnauthorizedError"),
       Handler("SSLError", TRUE, TRUE, "CloudUnavailableError"),
       Handler("ZoneDoesNotExistError", TRUE, TRUE, "ZoneNotFoundError"),
       Handler("Exception", TRUE, TRUE, "CloudUnavailableError") >>

DeleteRecordHandlers ==
    << Handler("ZoneDoesNotExistError", TRUE, TRUE, "ZoneNotFoundError"),
       Handler("RecordDoesNotExistError", FALSE, TRUE, "RecordNotFoundError"),
       Handler("Exception", TRUE, TRUE, "CloudUnavailableError") >>

DeleteZoneHandlers ==
    << Handler("ZoneDoesNotExistError", TRUE, TRUE, "ZoneNotFoundError"),
       Handler("Exception", TRUE, TRUE, "CloudUnavailableError") >>

CreateZoneHandlers ==
    << Handler("InvalidCredsError", TRUE, FALSE, "CloudUnauthorizedError"),
       Handler("SSLError", TRUE, TRUE, "CloudUnavailableError"),
       Handler("Exception", TRUE, TRUE, "CloudUnavailableError") >>

CreateRecordHandlers ==
    << Handler("InvalidCredsError", TRUE, FALSE, "CloudUnauthorizedError"),
       Handler("SSLError", TRUE, TRUE, "CloudUnavailableError"),
       Handler("ZoneDoesNotExistError", TRUE, TRUE, "ZoneNotFoundError"),
       Handler("Exception", TRUE, TRUE, "CloudUnavailableError") >>

(***************************************************************************)
(* The address parser used by Record.clean (ipaddress.ip_address).         *)
(***************************************************************************)
Digits == {"1", "2", "5", "9"}
HexDigits == Digits \cup {"f"}

DigitVal(ch) == CASE ch = "1" -> 1 [] ch = "2" -> 2 [] ch = "5" -> 5
                  [] ch = "9" -> 9 [] OTHER -> 0

RECURSIVE SplitFrom(_, _, _, _, _)
SplitFrom(s, ch, i, cur, acc) ==
    IF i > Len(s) THEN Append(acc, cur)
    ELSE IF s[i] = ch THEN SplitFrom(s, ch, i + 1, <<>>, Append(acc, cur))
    ELSE SplitFrom(s, ch, i + 1, Append(cur, s[i]), acc)

\* str.split(ch)
Split(s, ch) == SplitFrom(s, ch, 1, <<>>, <<>>)

RECURSIVE DecimalValue(_)
DecimalValue(s) ==
    IF Len(s) = 0 THEN 0
    ELSE 10 * DecimalValue(SubSeq(s, 1, Len(s) - 1)) + DigitVal(s[Len(s)])

\* one octet of a dotted quad
IsOctet(part) ==
    /\ Len(part) \in 1..3
    /\ \A i \in 1..Len(part) : part[i] \in Digits
    /\ DecimalValue(part) <= 255

\* ipaddress.IPv4Address(s) does not raise
IsIPv4(s) ==
    LET parts == Split(s, ".")
    IN  Len(parts) = 4 /\ \A i \in 1..4 : IsOctet(parts[i])

\* one group of an IPv6 address
IsHextet(part) ==
    /\ Len(part) \in 1..4
    /\ \A i \in 1..Len(part) : part[i] \in HexDigits

\* ipaddress.IPv6Address(s) does not raise (no embedded dotted quad, no scope)
IsIPv6(s) ==
    LET parts == Split(s, ":")
        n == Len(parts)
        skips == {i \in 2..(n - 1) : parts[i] = <<>>}
    IN  /\ n >= 3
        /\ n <= 9
        /\ Cardinality(skips) <= 1
        /\ IF skips # {}
           THEN LET k == CHOOSE i \in skips : TRUE
                    hi0 == k - 1
                    lo0 == n - k
                    hi == IF parts[1] = <<>> THEN hi0 - 1 ELSE hi0
                    lo == IF parts[n] = <<>> THEN lo0 - 1 ELSE lo0
                IN  /\ (parts[1] = <<>> => hi = 0)
                    /\ (parts[n] = <<>> => lo = 0)
                    /\ 8 - (hi + lo) >= 1
                    /\ \A i \in 1..n : parts[i] # <<>> => IsHextet(parts[i])
           ELSE /\ n = 8
                /\ \A i \in 1..n : IsHextet(parts[i])

\* ipaddress.ip_address(s) does not raise ValueError: it accepts both families
IpAddressOk(s) == IsIPv4(s) \/ IsIPv6(s)

Str_ip4 == <<"1", ".", "2", ".", "5", ".", "9">>
Str_ip4_bad == <<"1", ".", "2", ".", "5">>
Str_ip4_big == <<"9", "9", "9", ".", "1", ".", "1", ".", "1">>
Str_ip6 == <<":", ":", "1">>
Str_ip6_bad == <<"1", ":", "1">>

(***************************************************************************)
(* The documents: Zone and Record.  `deleted` is <<>> for None and <<t>>   *)
(* for the timestamp t.  models.py declares no `deleted` field; the        *)
(* controller assigns it, saves it and queries on it, and the store is     *)
(* taken to keep it like the declared fields.  owner, and the data and     *)
(* extra of a Record, are carried along unread and left out.               *)
(***************************************************************************)
NotDeleted == <<>>

\* Zone(cloud=..., owner=..., zone_id=..., domain=..., type=..., ttl=..., extra=...)
Zone(cloud, zone_id, domain, type, ttl, extra) ==
    [id |-> 0, cloud |-> cloud, zone_id |-> zone_id, domain |-> domain,
     type |-> type, ttl |-> ttl, extra |-> extra, deleted |-> NotDeleted]

\* Record(record_id=..., name=..., type=..., ttl=..., zone=...): rdata is the
\* ListField default, the empty list
Record(record_id, name, type, ttl, zone) ==
    [id |-> 0, zone |-> zone.id, record_id |-> record_id, name |-> name,
     type |-> type, ttl |-> ttl, rdata |-> <<>>, deleted |-> NotDeleted]

NoZone == Zone("", "", <<>>, "", 0, "")
NoRecord == Record("", "", "", 0, NoZone)

\* Zone.clean
ZoneClean(z) ==
    IF ~EndsWith(z.domain, ".") THEN [z EXCEPT !.domain = Append(@, ".")]
    ELSE z

\* a clean that validates a CNAME but leaves its value as given
RecordClean_KeepCname(r) ==
    LET addr == r.type \in {"A", "AAAA"}
        one  == r.type \in {"A", "AAAA", "CNAME"}
    IN  IF one /\ Len(r.rdata) = 0
        THEN [fault |-> "IndexError", doc |-> r]
        ELSE IF addr /\ ~IpAddressOk(r.rdata[1])
        THEN [fault |-> "ValidationError", doc |-> r]
        ELSE IF one /\ Len(r.rdata) # 1
        THEN [fault |-> "ValidationError", doc |-> r]
        ELSE [fault |-> "", doc |-> r]

\* Record.clean: the fault it raises ("" for none) and the record it leaves
RecordClean(r) ==
    LET addr == r.type \in {"A", "AAAA"}
        one  == r.type \in {"A", "AAAA", "CNAME"}
    IN  IF one /\ Len(r.rdata) = 0
        THEN [fault |-> "IndexError", doc |-> r]
        ELSE IF addr /\ ~IpAddressOk(r.rdata[1])
        THEN [fault |-> "ValidationError", doc |-> r]
        ELSE LET r2 == IF r.type = "CNAME" /\ ~EndsWith(r.rdata[1], ".")
                       THEN [r EXCEPT !.rdata[1] = Append(@, ".")]
                       ELSE r
             IN  IF one /\ Len(r2.rdata) # 1
                 THEN [fault |-> "ValidationError", doc |-> r2]
                 ELSE [fault |-> "", doc |-> r2]

(***************************************************************************)
(* The persistence store: Document.save() and the queries.                 *)
(***************************************************************************)
\* uuid4().hex of a new document: an id no stored row has (rows are never removed)
FreshId(rows) == Cardinality(rows) + 1

\* an index on (cloud, zone_id) that is not declared unique rejects nothing
ZoneIndexViolated_NotUnique(zs, z) == FALSE

\* the unique index of Zone.meta on (cloud, zone_id) rejects the insert
ZoneIndexViolated(zs, z) ==
    \E r \in zs : r.cloud = z.cloud /\ r.zone_id = z.zone_id

\* the unique index of Record.meta on (zone, record_id) rejects the insert
RecordIndexViolated(rs, d) ==
    \E r \in rs : r.zone = d.zone /\ r.record_id = d.record_id

\* save() of a document read from the store: the fields that were assigned a
\* new value since it was loaded are written to the row with its id
UpdateRows(rows, loaded, doc) ==
    { IF r.id = doc.id
      THEN [f \in DOMAIN r |-> IF doc[f] # loaded[f] THEN doc[f] ELSE r[f]]
      ELSE r : r \in rows }

\* Zone.save(): clean, then insert (new document) or update
ZoneSave(zs, loaded, doc, isNew) ==
    LET d == ZoneClean(doc)
    IN  IF isNew
        THEN IF ZoneIndexViolated(zs, d)
             THEN [fault |-> "NotUniqueError", rows |-> zs, doc |-> d]
             ELSE LET n == [d EXCEPT !.id = FreshId(zs)]
                  IN  [fault |-> "", rows |-> zs \cup {n}, doc |-> n]
        ELSE [fault |-> "", rows |-> UpdateRows(zs, loaded, d), doc |-> d]

\* Record.save(): clean, then insert (new document) or update
RecordSave(rs, loaded, doc, isNew) ==
    LET c == RecordClean(doc)
        d == c.doc
    IN  IF c.fault # ""
        THEN [fault |-> c.fault, rows |-> rs, doc |-> d]
        ELSE IF isNew
        THEN IF RecordIndexViolated(rs, d)
             THEN [fault |-> "NotUniqueError", rows |-> rs, doc |-> d]
             ELSE LET n == [d EXCEPT !.id = FreshId(rs)]
                  IN  [fault |-> "", rows |-> rs \cup {n}, doc |-> n]
        ELSE [fault |-> "", rows |-> UpdateRows(rs, loaded, d), doc |-> d]

\* a lookup that forgets the zone_id of the key
ZoneGet_CloudOnly(zs, cloud, zone_id) ==
    {r \in zs : r.cloud = cloud}

\* Zone.objects.get(cloud=cloud, zone_id=zone_id)
ZoneGet(zs, cloud, zone_id) ==
    {r \in zs : r.cloud = cloud /\ r.zone_id = zone_id}

\* Record.objects.get(zone=zone, record_id=record_id)
RecordGet(rs, zone, record_id) ==
    {r \in rs : r.zone = zone.id /\ r.record_id = record_id}

\* the rows of a query, in the store's natural (insertion) order
RECURSIVE InOrder(_)
InOrder(rows) ==
    IF rows = {} THEN <<>>
    ELSE LET m == CHOOSE r \in rows : \A q \in rows : q.id >= r.id
         IN  <<m>> \o InOrder(rows \ {m})

\* Record.objects(zone=zone, deleted=None)
RecordsNotDeleted(rs, zone) ==
    InOrder({r \in rs : r.zone = zone.id /\ r.deleted = NotDeleted})

\* datetime.datetime.utcnow(), and the clock after the read
Tick(t) == IF t < MaxClock THEN t + 1 ELSE t

(***************************************************************************)
(* The provider adapter (libcloud connection): what it can answer.         *)
(***************************************************************************)
ZoneNode(id, domain, type, ttl, extra) ==
    [id |-> id, domain |-> domain, type |-> type, ttl |-> ttl, extra |-> extra]

RecordNode(id, name, type, ttl, data) ==
    [id |-> id, name |-> name, type |-> type, ttl |-> ttl, data |-> data]

\* zone objects the provider may return; "z1" comes with two sets of values
ZoneNodes ==
    { ZoneNode("z1", Str_a, "master", 300, "e1"),
      ZoneNode("z1", Str_b_dot, "slave", 600, "e2"),
      ZoneNode("z2", Str_a_dot, "master", 300, "e1") }

\* record objects the provider may list; "r1" comes with two sets of values
RecordNodes ==
    { RecordNode("r1", "www", "A", 300, <<Str_ip4>>),
      RecordNode("r1", "web", "CNAME", 600, <<Str_a>>),
      RecordNode("r2", "txt", "TXT", 0, <<Str_a>>) }

\* record objects the provider may return from create_record: those above and
\* one whose address does not parse
CreatedRecordNodes ==
    RecordNodes \cup { RecordNode("r2", "mail", "A", 300, <<Str_ip4_bad>>) }

\* the sequences over S of length at most n
SeqsUpTo(S, n) == UNION { [1..k -> S] : k \in 0..n }

ZoneResponses == SeqsUpTo(ZoneNodes, MaxNodes)
RecordResponses == SeqsUpTo(RecordNodes, MaxNodes)

\* domains a caller may pass to create_zone
Domains == {Str_a, Str_a_dot, Str_a_dot_nl}

(***************************************************************************)
(* The controller's calls in progress.                                     *)
(***************************************************************************)
\* the locals of one public call
IdleFrame ==
    [op |-> "", zone |-> NoZone, rec |-> NoRecord, isNew |-> FALSE,
     nodes |-> <<>>, i |-> 0, out |-> <<>>, todo |-> <<>>, domain |-> <<>>,
     calls |-> <<>>, exc |-> "", got |-> "", preZones |-> {},
     preRecords |-> {}]

\* what the last finished call of a caller did
NoLast == [status |-> "none", fault |-> "", ret |-> <<>>, f |-> IdleFrame]

\* the number of public calls a caller makes: MaxCalls when it is alone, one
\* when two callers run against each other
Budget == IF Cardinality(active) = 1 THEN MaxCalls ELSE 1

\* a caller enters a public method
Begin(c, op, start, fr) ==
    /\ c \in active
    /\ pc[c] = "idle"
    /\ ncalls[c] < Budget
    /\ ncalls' = [ncalls EXCEPT ![c] = @ + 1]
    /\ pc' = [pc EXCEPT ![c] = start]
    /\ frame' = [frame EXCEPT ![c] =
                   [fr EXCEPT !.op = op, !.preZones = zones,
                              !.preRecords = records]]
    /\ last' = [last EXCEPT ![c] = NoLast]
    /\ UNCHANGED <<zones, records, now, active>>
    /\ UNCHANGED netVars

\* the call goes on at another statement
Goto(c, newpc, fr) ==
    /\ pc' = [pc EXCEPT ![c] = newpc]
    /\ frame' = [frame EXCEPT ![c] = fr]
    /\ UNCHANGED <<last, ncalls, active>>
    /\ UNCHANGED netVars

\* the call returns ret
Return(c, fr, ret) ==
    /\ pc' = [pc EXCEPT ![c] = "idle"]
    /\ frame' = [frame EXCEPT ![c] = IdleFrame]
    /\ last' = [last EXCEPT ![c] =
                  [status |-> "ok", fault |-> "", ret |-> ret, f |-> fr]]
    /\ UNCHANGED <<ncalls, active>>
    /\ UNCHANGED netVars

\* the call raises fault
Raise(c, fr, fault) ==
    /\ pc' = [pc EXCEPT ![c] = "idle"]
    /\ frame' = [frame EXCEPT ![c] = IdleFrame]
    /\ last' = [last EXCEPT ![c] =
                  [status |-> "fault", fault |-> fault, ret |-> <<>>, f |-> fr]]
    /\ UNCHANGED <<ncalls, active>>
    /\ UNCHANGED netVars

\* a call on self.connection is made
Called(fr, call, arg) ==
    [fr EXCEPT !.calls = Append(@, [call |-> call, arg |-> arg])]

\* the call on self.connection raises exc, and the except clauses of the
\* method translate it
ProviderRaises(c, fr, handlers, exc) ==
    Raise(c, [fr EXCEPT !.exc = exc], Classify(handlers, exc))

ZoneDict(z) ==
    [id |-> z.id, zone_id |-> z.zone_id, domain |-> z.domain, type |-> z.type,
     ttl |-> z.ttl, extra |-> z.extra]

RecordDict(r) ==
    [id |-> r.id, record_id |-> r.record_id, name |-> r.name, type |-> r.type,
     rdata |-> r.rdata, ttl |-> r.ttl]

(***************************************************************************)
(* list_zones                                                              *)
(***************************************************************************)
CallListZones(c) == Begin(c, "list_zones", "lz_fetch", IdleFrame)

\* _list_zones__fetch_zones
ListZonesFetch(c) ==
    /\ pc[c] = "lz_fetch"
    /\ LET fr == Called(frame[c], "list_zones", <<>>)
       IN  \/ \E exc \in ProviderExceptions :
                ProviderRaises(c, fr, ListZonesHandlers, exc)
           \/ \E resp \in ZoneResponses :
                Goto(c, "lz_loop", [fr EXCEPT !.nodes = resp, !.i = 1])
    /\ UNCHANGED <<zones, records, now>>

\* a list_zones loop that writes the provider's values into the Zone it finds
ListZonesGet_Refresh(c) ==
    /\ pc[c] = "lz_loop"
    /\ frame[c].i <= Len(frame[c].nodes)
    /\ LET fr == frame[c]
           node == fr.nodes[fr.i]
           found == ZoneGet(zones, TheCloud, node.id)
       IN  IF found = {}
           THEN Goto(c, "lz_save", fr) /\ UNCHANGED zones
           ELSE LET z == CHOOSE q \in found : TRUE
                    doc == ZoneClean([z EXCEPT !.domain = node.domain,
                                               !.type = node.type,
                                               !.ttl = node.ttl,
                                               !.extra = node.extra])
                IN  /\ zones' = (zones \ {z}) \cup {doc}
                    /\ Goto(c, "lz_loop",
                            [fr EXCEPT !.out = Append(@, doc), !.i = @ + 1])
    /\ UNCHANGED <<records, now>>

\* for node in nodes: zone = Zone.objects.get(cloud=self.cloud, zone_id=node.id)
ListZonesGet(c) ==
    /\ pc[c] = "lz_loop"
    /\ frame[c].i <= Len(frame[c].nodes)
    /\ LET fr == frame[c]
           node == fr.nodes[fr.i]
           found == ZoneGet(zones, TheCloud, node.id)
       IN  IF found = {}
           THEN Goto(c, "lz_save", fr)
           ELSE IF Cardinality(found) > 1
           THEN Raise(c, fr, "MultipleObjectsReturned")
           ELSE Goto(c, "lz_loop",
                     [fr EXCEPT !.out = Append(@, CHOOSE z \in found : TRUE),
                                !.i = @ + 1])
    /\ UNCHANGED <<zones, records, now>>

\* except Zone.DoesNotExist: zone = Zone(...); zone.save()
ListZonesSave(c) ==
    /\ pc[c] = "lz_save"
    /\ LET fr == frame[c]
           node == fr.nodes[fr.i]
           doc == Zone(TheCloud, node.id, node.domain, node.type, node.ttl,
                       node.extra)
           res == ZoneSave(zones, doc, doc, TRUE)
       IN  IF res.fault # ""
           THEN Raise(c, fr, res.fault) /\ UNCHANGED zones
           ELSE /\ zones' = res.rows
                /\ Goto(c, "lz_loop",
                        [fr EXCEPT !.out = Append(@, res.doc), !.i = @ + 1])
    /\ UNCHANGED <<records, now>>

\* return [{...} for zone in zones]
ListZonesReturn(c) ==
    /\ pc[c] = "lz_loop"
    /\ frame[c].i > Len(frame[c].nodes)
    /\ Return(c, frame[c],
              [k \in 1..Len(frame[c].out) |-> ZoneDict(frame[c].out[k])])
    /\ UNCHANGED <<zones, records, now>>

(***************************************************************************)
(* list_records                                                            *)
(***************************************************************************)
\* _list__records_postparse_data of the provider's controller: fills rdata from
\* the provider object
PostParse(node, model) == [model EXCEPT !.rdata = node.data]

\* a refresh that leaves the stored ttl alone
Refresh_KeepTtl(rec, node) ==
    LET r1 == IF rec.name # node.name THEN [rec EXCEPT !.name = node.name] ELSE rec
    IN  IF r1.type # node.type THEN [r1 EXCEPT !.type = node.type] ELSE r1

\* the name, type and ttl of the provider object replace the stored ones where
\* they differ
Refresh(rec, node) ==
    LET r1 == IF rec.name # node.name THEN [rec EXCEPT !.name = node.name] ELSE rec
        r2 == IF r1.type # node.type THEN [r1 EXCEPT !.type = node.type] ELSE r1
    IN  IF r2.ttl # node.ttl THEN [r2 EXCEPT !.ttl = node.ttl] ELSE r2

CallListRecords(c, z) ==
    Begin(c, "list_records", "lr_fetch", [IdleFrame EXCEPT !.zone = z])

\* _list_records__fetch_records
ListRecordsFetch(c) ==
    /\ pc[c] = "lr_fetch"
    /\ LET fr == Called(frame[c], "list_records", <<frame[c].zone.zone_id>>)
       IN  \/ \E exc \in ProviderExceptions :
                ProviderRaises(c, fr, ListRecordsHandlers, exc)
           \/ \E resp \in RecordResponses :
                Goto(c, "lr_loop", [fr EXCEPT !.nodes = resp, !.i = 1])
    /\ UNCHANGED <<zones, records, now>>

\* for node in nodes: record = Record.objects.get(zone=zone, record_id=node.id),
\* or a new Record when there is none
ListRecordsGet(c) ==
    /\ pc[c] = "lr_loop"
    /\ frame[c].i <= Len(frame[c].nodes)
    /\ LET fr == frame[c]
           node == fr.nodes[fr.i]
           found == RecordGet(records, fr.zone, node.id)
       IN  IF found = {}
           THEN Goto(c, "lr_save",
                     [fr EXCEPT !.isNew = TRUE,
                                !.rec = Record(node.id, node.name, node.type,
                                               node.ttl, fr.zone)])
           ELSE IF Cardinality(found) > 1
           THEN Raise(c, fr, "MultipleObjectsReturned")
           ELSE Goto(c, "lr_save",
                     [fr EXCEPT !.isNew = FALSE,
                                !.rec = CHOOSE r \in found : TRUE])
    /\ UNCHANGED <<zones, records, now>>

\* the refresh of name, type and ttl, the post-parse hook and record.save()
ListRecordsSave(c) ==
    /\ pc[c] = "lr_save"
    /\ LET fr == frame[c]
           node == fr.nodes[fr.i]
           doc == PostParse(node, Refresh(fr.rec, node))
           res == RecordSave(records, fr.rec, doc, fr.isNew)
       IN  IF res.fault # ""
           THEN Raise(c, fr, res.fault) /\ UNCHANGED records
           ELSE /\ records' = res.rows
                /\ Goto(c, "lr_loop", [fr EXCEPT !.rec = res.doc, !.i = @ + 1])
    /\ UNCHANGED <<zones, now>>

\* a list_records that returns only the Records the provider response named
ListRecordsReturn_OnlyListed(c) ==
    /\ pc[c] = "lr_loop"
    /\ frame[c].i > Len(frame[c].nodes)
    /\ LET listed == {r \in records :
                        \E k \in 1..Len(frame[c].nodes) :
                            frame[c].nodes[k].id = r.record_id}
           rows == RecordsNotDeleted(listed, frame[c].zone)
       IN  Return(c, frame[c], [k \in 1..Len(rows) |-> RecordDict(rows[k])])
    /\ UNCHANGED <<zones, records, now>>

\* records = Record.objects(zone=zone, deleted=None); return [{...} ...]
ListRecordsReturn(c) ==
    /\ pc[c] = "lr_loop"
    /\ frame[c].i > Len(frame[c].nodes)
    /\ LET rows == RecordsNotDeleted(records, frame[c].zone)
       IN  Return(c, frame[c], [k \in 1..Len(rows) |-> RecordDict(rows[k])])
    /\ UNCHANGED <<zones, records, now>>

(***************************************************************************)
(* delete_record                                                           *)
(***************************************************************************)
\* the zone document a record refers to
ZoneOf(r) == CHOOSE z \in zones : z.id = r.zone

CallDeleteRecord(c, r) ==
    Begin(c, "delete_record", "dr_provider",
          [IdleFrame EXCEPT !.zone = ZoneOf(r), !.rec = r])

\* _delete_record__from_id
DeleteRecordProvider(c) ==
    /\ pc[c] = "dr_provider"
    /\ LET fr == Called(frame[c], "delete_record",
                        <<frame[c].zone.zone_id, frame[c].rec.record_id>>)
       IN  \/ \E exc \in ProviderExceptions :
                ProviderRaises(c, fr, DeleteRecordHandlers, exc)
           \/ Goto(c, "dr_save", fr)
    /\ UNCHANGED <<zones, records, now>>

\* a delete_record that removes the row
DeleteRecordSave_Remove(c) ==
    /\ pc[c] = "dr_save"
    /\ records' = {r \in records : r.id # frame[c].rec.id}
    /\ Return(c, frame[c], <<>>)
    /\ now' = Tick(now)
    /\ UNCHANGED zones

\* record.deleted = datetime.datetime.utcnow(); record.save()
DeleteRecordSave(c) ==
    /\ pc[c] = "dr_save"
    /\ LET fr == frame[c]
           doc == [fr.rec EXCEPT !.deleted = <<now>>]
           res == RecordSave(records, fr.rec, doc, FALSE)
       IN  IF res.fault # ""
           THEN Raise(c, fr, res.fault) /\ UNCHANGED records
           ELSE records' = res.rows /\ Return(c, [fr EXCEPT !.rec = res.doc], <<>>)
    /\ now' = Tick(now)
    /\ UNCHANGED zones

(***************************************************************************)
(* delete_zone                                                             *)
(***************************************************************************)
CallDeleteZone(c, z) ==
    Begin(c, "delete_zone", "dz_provider", [IdleFrame EXCEPT !.zone = z])

\* _delete_zone__for_cloud
DeleteZoneProvider(c) ==
    /\ pc[c] = "dz_provider"
    /\ LET fr == Called(frame[c], "delete_zone", <<frame[c].zone.zone_id>>)
       IN  \/ \E exc \in ProviderExceptions :
                ProviderRaises(c, fr, DeleteZoneHandlers, exc)
           \/ Goto(c, "dz_save", fr)
    /\ UNCHANGED <<zones, records, now>>

\* zone.deleted = datetime.datetime.utcnow(); zone.save()
DeleteZoneSave(c) ==
    /\ pc[c] = "dz_save"
    /\ LET fr == frame[c]
           doc == [fr.zone EXCEPT !.deleted = <<now>>]
           res == ZoneSave(zones, fr.zone, doc, FALSE)
       IN  /\ zones' = res.rows
           /\ Goto(c, "dz_query", [fr EXCEPT !.zone = res.doc])
    /\ now' = Tick(now)
    /\ UNCHANGED records

\* a delete_zone that leaves the records to the store's cascade
DeleteZoneQuery_NoCascade(c) ==
    /\ pc[c] = "dz_query"
    /\ Goto(c, "dz_loop", [frame[c] EXCEPT !.todo = <<>>, !.i = 1])
    /\ UNCHANGED <<zones, records, now>>

\* records = Record.objects(zone=zone, deleted=None), read when the loop starts
DeleteZoneQuery(c) ==
    /\ pc[c] = "dz_query"
    /\ Goto(c, "dz_loop",
            [frame[c] EXCEPT !.todo = RecordsNotDeleted(records, frame[c].zone),
                             !.i = 1])
    /\ UNCHANGED <<zones, records, now>>

\* for record in records: record.deleted = utcnow(); record.save()
DeleteZoneCascade(c) ==
    /\ pc[c] = "dz_loop"
    /\ frame[c].i <= Len(frame[c].todo)
    /\ LET fr == frame[c]
           rec == fr.todo[fr.i]
           doc == [rec EXCEPT !.deleted = <<now>>]
           res == RecordSave(records, rec, doc, FALSE)
       IN  IF res.fault # ""
           THEN Raise(c, fr, res.fault) /\ UNCHANGED records
           ELSE records' = res.rows /\ Goto(c, "dz_loop", [fr EXCEPT !.i = @ + 1])
    /\ now' = Tick(now)
    /\ UNCHANGED zones

DeleteZoneReturn(c) ==
    /\ pc[c] = "dz_loop"
    /\ frame[c].i > Len(frame[c].todo)
    /\ Return(c, frame[c], <<>>)
    /\ UNCHANGED <<zones, records, now>>

(***************************************************************************)
(* create_zone                                                             *)
(***************************************************************************)
\* if not re.match(".*\.$", domain): domain += "."
NormalizeDomain(domain) ==
    IF ~ReMatchDotEnd(domain) THEN Append(domain, ".") ELSE domain

CallCreateZone(c, domain) ==
    Begin(c, "create_zone", "cz_provider", [IdleFrame EXCEPT !.domain = domain])

\* what connection.create_zone may return in place of a zone object: None, or
\* an object that is falsy and still has the attributes of a zone
FalsyReturns == {"None", "falsy_zone"}

\* _create_zone__for_cloud: the provider raises, or returns a zone object or a
\* falsy value (nodes is then empty).  log.info reads zone.domain inside the
\* try: on None that is an AttributeError, which the except clauses translate
CreateZoneProvider(c) ==
    /\ pc[c] = "cz_provider"
    /\ LET fr == Called(frame[c], "create_zone", NormalizeDomain(frame[c].domain))
       IN  \/ \E exc \in ProviderExceptions :
                ProviderRaises(c, fr, CreateZoneHandlers, exc)
           \/ \E v \in FalsyReturns :
                IF v = "None"
                THEN ProviderRaises(c, [fr EXCEPT !.got = v],
                                    CreateZoneHandlers, "AttributeError")
                ELSE Goto(c, "cz_save", [fr EXCEPT !.got = v])
           \/ \E node \in ZoneNodes :
                Goto(c, "cz_save", [fr EXCEPT !.nodes = <<node>>, !.got = "zone"])
    /\ UNCHANGED <<zones, records, now>>

\* if node: zone = Zone(...); zone.save()
CreateZoneSave(c) ==
    /\ pc[c] = "cz_save"
    /\ LET fr == frame[c]
       IN  IF fr.nodes = <<>>
           THEN Return(c, fr, <<>>) /\ UNCHANGED zones
           ELSE LET node == fr.nodes[1]
                    doc == Zone(TheCloud, node.id, node.domain, node.type,
                                node.ttl, node.extra)
                    res == ZoneSave(zones, doc, doc, TRUE)
                IN  IF res.fault # ""
                    THEN Raise(c, fr, res.fault) /\ UNCHANGED zones
                    ELSE /\ zones' = res.rows
                         /\ Return(c, [fr EXCEPT !.zone = res.doc], <<>>)
    /\ UNCHANGED <<records, now>>

(***************************************************************************)
(* create_record                                                           *)
(***************************************************************************)
CallCreateRecord(c, z) ==
    Begin(c, "create_record", "cr_provider", [IdleFrame EXCEPT !.zone = z])

\* _create_record__for_zone
CreateRecordProvider(c) ==
    /\ pc[c] = "cr_provider"
    /\ LET fr == Called(frame[c], "create_record", <<frame[c].zone.zone_id>>)
       IN  \/ \E exc \in ProviderExceptions :
                ProviderRaises(c, fr, CreateRecordHandlers, exc)
           \/ \E node \in CreatedRecordNodes :
                Goto(c, "cr_save", [fr EXCEPT !.nodes = <<node>>])
    /\ UNCHANGED <<zones, records, now>>

\* record = Record(...); self._list__records_postparse_data(node, record);
\* record.save()
CreateRecordSave(c) ==
    /\ pc[c] = "cr_save"
    /\ LET fr == frame[c]
           node == fr.nodes[1]
           doc == PostParse(node, Record(node.id, node.name, node.type,
                                         node.ttl, fr.zone))
           res == RecordSave(records, doc, doc, TRUE)
       IN  IF res.fault # ""
           THEN Raise(c, fr, res.fault) /\ UNCHANGED records
           ELSE records' = res.rows /\ Return(c, [fr EXCEPT !.rec = res.doc], <<>>)
    /\ UNCHANGED <<zones, now>>

(***************************************************************************)
(* The network controllers.  A network or subnet spec is a dict, modelled  *)
(* by the set of its keys; `networks` and `subnets` are what exists at the *)
(* provider.                                                               *)
(***************************************************************************)
Providers == {"ec2", "gce", "openstack"}

NetworkSpecs == {{"name", "cidr_block"}, {"name"}, {}}

SubnetSpecs ==
    {{}, {"cidr", "availability_zone"}, {"cidr"}, {"availability_zone"}, {"name"}}

\* what a call on the connection does: it returns or it raises
Outcomes == {"ok", "raise"}

\* the result of a controller method: the fault it raises ("" for none), the
\* provider's networks and subnets after it, and the calls it made
NetResult(fault, nets, subs, calls) ==
    [fault |-> fault, networks |-> nets, subnets |-> subs, calls |-> calls]

NoNetLast ==
    [op |-> "", provider |-> "", network |-> {}, subnet |-> {}, id |-> 0,
     oc |-> [create |-> "ok", subnet |-> "ok", delete |-> "ok"],
     fault |-> "", param |-> "", calls |-> <<>>]

\* AmazonNetworkController._create_subnet: the fault it raises, the key the
\* fault carries (the KeyError of the first subscript that fails) and its calls
AmazonCreateSubnet(subnet, oc) ==
    IF "cidr" \notin subnet
    THEN [fault |-> "RequiredParameterMissingError", param |-> "cidr",
          calls |-> <<>>]
    ELSE IF "availability_zone" \notin subnet
    THEN [fault |-> "RequiredParameterMissingError",
          param |-> "availability_zone", calls |-> <<>>]
    ELSE IF oc.subnet = "raise"
    THEN [fault |-> "ProviderError", param |-> "",
          calls |-> <<"ex_create_subnet">>]
    ELSE [fault |-> "", param |-> "", calls |-> <<"ex_create_subnet">>]

\* OpenStackNetworkController._create_subnet: subnet.get() raises for no
\* missing key, the provider is called with what is there
OpenStackCreateSubnet(subnet, oc) ==
    IF oc.subnet = "raise"
    THEN [fault |-> "ProviderError", param |-> "",
          calls |-> <<"ex_create_subnet">>]
    ELSE [fault |-> "", param |-> "", calls |-> <<"ex_create_subnet">>]

\* the two phases shared by the EC2 and the OpenStack _create_network: the keys
\* of the network spec read inside the first try, the network, then the
\* subnet, with ex_delete_network before NetworkError when the subnet fails
TwoPhaseCreate(required, sub, id, network, subnet, oc) ==
    IF ~(required \subseteq network)
    THEN NetResult("NetworkCreationError", networks, subnets, <<>>)
    ELSE IF oc.create = "raise"
    THEN NetResult("NetworkCreationError", networks, subnets,
                   <<"ex_create_network">>)
    ELSE LET nets == networks \cup {id}
             c1 == <<"ex_create_network">>
         IN  IF subnet = {}
             THEN NetResult("", nets, subnets, c1)
             ELSE IF sub.fault = ""
             THEN NetResult("", nets,
                            subnets \cup {[id |-> id, network |-> id]},
                            c1 \o sub.calls)
             ELSE IF oc.delete = "raise"
             THEN NetResult("ProviderError", nets, subnets,
                            c1 \o sub.calls \o <<"ex_delete_network">>)
             ELSE NetResult("NetworkError", nets \ {id}, subnets,
                            c1 \o sub.calls \o <<"ex_delete_network">>)

\* AmazonNetworkController._create_network
AmazonCreateNetwork(id, network, subnet, oc) ==
    TwoPhaseCreate({"name", "cidr_block"}, AmazonCreateSubnet(subnet, oc),
                   id, network, subnet, oc)

\* OpenStackNetworkController._create_network
OpenStackCreateNetwork(id, network, subnet, oc) ==
    TwoPhaseCreate({"name"}, OpenStackCreateSubnet(subnet, oc),
                   id, network, subnet, oc)

\* GoogleNetworkController._create_network: pass
GoogleCreateNetwork(id, network, subnet, oc) ==
    NetResult("", networks, subnets, <<>>)

\* _create_network of the provider's controller
CreateNetwork(p, network, subnet, oc) ==
    /\ netCalls < MaxNetCalls
    /\ LET id == netCalls + 1
           res == CASE p = "ec2" -> AmazonCreateNetwork(id, network, subnet, oc)
                    [] p = "openstack" ->
                         OpenStackCreateNetwork(id, network, subnet, oc)
                    [] OTHER -> GoogleCreateNetwork(id, network, subnet, oc)
       IN  /\ networks' = res.networks
           /\ subnets' = res.subnets
           /\ netLast' = [op |-> "create_network", provider |-> p,
                          network |-> network, subnet |-> subnet, id |-> id,
                          oc |-> oc, fault |-> res.fault, param |-> "",
                          calls |-> res.calls]
    /\ netCalls' = netCalls + 1
    /\ UNCHANGED dnsVars

\* _create_subnet of the EC2 or the OpenStack controller, called on its own
\* for a network that exists
CreateSubnet(p, subnet, parent, oc) ==
    /\ netCalls < MaxNetCalls
    /\ p \in {"ec2", "openstack"}
    /\ parent \in networks
    /\ LET id == netCalls + 1
           res == IF p = "ec2" THEN AmazonCreateSubnet(subnet, oc)
                  ELSE OpenStackCreateSubnet(subnet, oc)
       IN  /\ subnets' = IF res.fault = ""
                         THEN subnets \cup {[id |-> id, network |-> parent]}
                         ELSE subnets
           /\ netLast' = [op |-> "create_subnet", provider |-> p,
                          network |-> {}, subnet |-> subnet, id |-> id,
                          oc |-> oc, fault |-> res.fault, param |-> res.param,
                          calls |-> res.calls]
    /\ netCalls' = netCalls + 1
    /\ UNCHANGED networks
    /\ UNCHANGED dnsVars

\* AmazonNetworkController._delete_network: the subnets of the network are
\* listed and deleted, then the network; the provider may raise at the
\* listing, or at the network after the subnets are gone, and its fault
\* becomes NetworkError
DeleteNetwork(id, outcome) ==
    /\ netCalls < MaxNetCalls
    /\ id \in networks
    /\ LET mine == {s \in subnets : s.network = id}
           dels == [k \in 1..Cardinality(mine) |-> "ex_delete_subnet"]
       IN  /\ networks' = IF outcome = "ok" THEN networks \ {id} ELSE networks
           /\ subnets' = IF outcome = "raise_list" THEN subnets
                         ELSE subnets \ mine
           /\ netLast' =
                [NoNetLast EXCEPT
                   !.op = "delete_network", !.provider = "ec2", !.id = id,
                   !.oc.delete = IF outcome = "ok" THEN "ok" ELSE "raise",
                   !.fault = IF outcome = "ok" THEN "" ELSE "NetworkError",
                   !.calls = IF outcome = "raise_list" THEN <<"ex_list_subnets">>
                             ELSE <<"ex_list_subnets">> \o dels
                                    \o <<"ex_delete_network">>]
    /\ netCalls' = netCalls + 1
    /\ UNCHANGED dnsVars

(***************************************************************************)
(* The DNS controller used by one caller.                                  *)
(***************************************************************************)
InitNet ==
    /\ networks = {}
    /\ subnets = {}
    /\ netCalls = 0
    /\ netLast = NoNetLast

\* a zone stored by an earlier list_zones of this cloud
StoredZone ==
    [Zone(TheCloud, "z1", Str_a_dot, "master", 300, "e1") EXCEPT !.id = 1]

InitDNS ==
    /\ zones \in {{}, {StoredZone}}
    /\ records = {}
    /\ now = 1
    /\ pc = [c \in Callers |-> "idle"]
    /\ frame = [c \in Callers |-> IdleFrame]
    /\ last = [c \in Callers |-> NoLast]
    /\ ncalls = [c \in Callers |-> 0]

Init ==
    /\ InitDNS
    /\ active = {1}
    /\ InitNet

Next ==
    \E c \in Callers :
        \/ CallListZones(c)
        \/ ListZonesFetch(c)
        \/ ListZonesGet(c)
        \/ ListZonesSave(c)
        \/ ListZonesReturn(c)
        \/ \E z \in zones : CallListRecords(c, z)
        \/ ListRecordsFetch(c)
        \/ ListRecordsGet(c)
        \/ ListRecordsSave(c)
        \/ ListRecordsReturn(c)
        \/ \E r \in records : CallDeleteRecord(c, r)
        \/ DeleteRecordProvider(c)
        \/ DeleteRecordSave(c)
        \/ \E z \in zones : CallDeleteZone(c, z)
        \/ DeleteZoneProvider(c)
        \/ DeleteZoneSave(c)
        \/ DeleteZoneQuery(c)
        \/ DeleteZoneCascade(c)
        \/ DeleteZoneReturn(c)
        \/ \E d \in Domains : CallCreateZone(c, d)
        \/ CreateZoneProvider(c)
        \/ CreateZoneSave(c)
        \/ \E z \in zones : CallCreateRecord(c, z)
        \/ CreateRecordProvider(c)
        \/ CreateRecordSave(c)

Spec == Init /\ [][Next]_vars

(***************************************************************************)
(* Properties of the DNS controller used by one caller.                    *)
(***************************************************************************)
\* the last call of caller c was op and returned
Returned(c, op) == last[c].f.op = op /\ last[c].status = "ok"

Ids(rows) == {r.id : r \in rows}

\* the stored Zones of this cloud with a zone_id, the stored Records of a Zone
\* with a record_id
ZonesWithKey(zone_id) ==
    {z \in zones : z.cloud = TheCloud /\ z.zone_id = zone_id}

RecordsWithKey(zone, record_id) ==
    {r \in records : r.zone = zone.id /\ r.record_id = record_id}

\* C2: the store holds at most one Zone per (cloud, zone_id), and a list_zones
\* that returns gives, for every zone object of the provider response whose id
\* was already stored, the id of the stored Zone and adds no Zone for it.
C2_ListZonesUpsert ==
    /\ \A z1, z2 \in zones :
          (z1.cloud = z2.cloud /\ z1.zone_id = z2.zone_id) => z1.id = z2.id
    /\ \A c \in Callers :
          Returned(c, "list_zones") =>
            LET nodes == last[c].f.nodes
                ret == last[c].ret
            IN  /\ Len(ret) = Len(nodes)
                /\ \A k \in 1..Len(nodes) :
                     /\ ret[k].zone_id = nodes[k].id
                     /\ \A z \in last[c].f.preZones :
                          (z.cloud = TheCloud /\ z.zone_id = nodes[k].id) =>
                            /\ ret[k].id = z.id
                            /\ ZonesWithKey(nodes[k].id) = {z}

\* C2 witness: a list_zones returned and its response named a stored zone id
C2_Witness ==
    \E c \in Callers :
        /\ Returned(c, "list_zones")
        /\ \E k \in 1..Len(last[c].f.nodes) :
             \E z \in last[c].f.preZones : z.zone_id = last[c].f.nodes[k].id

\* the ids that occur twice in a provider response
Duplicated(nodes) ==
    {nodes[i].id : i \in {i \in 1..Len(nodes) :
                            \E j \in 1..Len(nodes) : j # i /\ nodes[j].id = nodes[i].id}}

C5_CredentialFirst ==
    \A c \in Callers :
        (last[c].status = "fault" /\ last[c].f.exc = "InvalidCredsError") =>
          last[c].fault = "CloudUnauthorizedError"

\* C8 (as claimed): the domain create_zone hands to the provider ends with ".",
\* the domain of the Zone it persists ends with ".", and a domain that ends
\* with "." is handed on unchanged.
C8_TrailingDot ==
    \A c \in Callers :
        last[c].f.op = "create_zone" =>
          /\ \A k \in 1..Len(last[c].f.calls) :
               /\ EndsWith(last[c].f.calls[k].arg, ".")
               /\ EndsWith(last[c].f.domain, ".") =>
                    last[c].f.calls[k].arg = last[c].f.domain
          /\ \A z \in zones \ last[c].f.preZones : EndsWith(z.domain, ".")

\* C9 (as claimed): delete_record surfaces the provider's record-does-not-exist
\* fault as RecordNotFoundError and its zone-does-not-exist fault as
\* ZoneNotFoundError, and leaves the stored Record as it was.
C9_DeleteRecordNotFound ==
    \A c \in Callers :
        (last[c].f.op = "delete_record" /\ last[c].status = "fault") =>
          /\ last[c].f.exc = "RecordDoesNotExistError" =>
               last[c].fault = "RecordNotFoundError"
          /\ last[c].f.exc = "ZoneDoesNotExistError" =>
               last[c].fault = "ZoneNotFoundError"
          /\ last[c].f.exc \in {"RecordDoesNotExistError", "ZoneDoesNotExistError"} =>
               records = last[c].f.preRecords

\* the faults the controller classifies provider faults into
ClassifiedFaults ==
    {"CloudUnauthorizedError", "CloudUnavailableError", "ZoneNotFoundError",
     "RecordNotFoundError"}

\* the last call of caller c ended because its provider call raised
ProviderFaulted(c) ==
    last[c].status = "fault" /\ last[c].f.exc \in ProviderExceptions

\* the frame of a call whose provider call raised: nothing returned, one
\* provider call made, every Zone and Record as before the call
FaultFrame(c) ==
    /\ last[c].ret = <<>>
    /\ Len(last[c].f.calls) = 1
    /\ zones = last[c].f.preZones
    /\ records = last[c].f.preRecords

\* C12 (as claimed): when the provider call of a DNS operation faults, the
\* operation raises a classified fault, returns nothing, makes no second
\* provider call and leaves every stored Zone and Record as before the call.
C12_ProviderFaultFrame ==
    \A c \in Callers :
        ProviderFaulted(c) =>
          /\ last[c].fault \in ClassifiedFaults
          /\ FaultFrame(c)

\* C13 (as claimed): when the provider's create_zone returns a falsy value,
\* create_zone completes without a fault and the store is unchanged.
C13_FalsyNodeNoOp ==
    \A c \in Callers :
        (last[c].f.op = "create_zone" /\ last[c].f.got \in FalsyReturns) =>
          /\ last[c].status = "ok"
          /\ zones = last[c].f.preZones
          /\ records = last[c].f.preRecords

\* the positions of a provider response that are the last with their id
LastEntries(nodes) ==
    {k \in 1..Len(nodes) : \A j \in (k + 1)..Len(nodes) : nodes[j].id # nodes[k].id}

\* record r carries the name, type and ttl of the provider object node
SameThree(r, node) ==
    r.name = node.name /\ r.type = node.type /\ r.ttl = node.ttl

\* C14: after a list_records that returns, the stored Record of every record id
\* of the provider response has the name, type and ttl of the last entry with
\* that id, and a Record that already had them is the same row with the same
\* three values.
C14_RefreshNameTypeTtl ==
    \A c \in Callers :
        Returned(c, "list_records") =>
          LET nodes == last[c].f.nodes
              zone == last[c].f.zone
          IN  \A k \in LastEntries(nodes) :
                /\ \E q \in records :
                     /\ RecordsWithKey(zone, nodes[k].id) = {q}
                     /\ SameThree(q, nodes[k])
                /\ \A r \in last[c].f.preRecords :
                     (/\ r.zone = zone.id
                      /\ r.record_id = nodes[k].id
                      /\ \A j \in 1..Len(nodes) :
                           nodes[j].id = r.record_id => SameThree(r, nodes[j]))
                     => \E q \in records :
                          /\ q.id = r.id
                          /\ q.name = r.name /\ q.type = r.type /\ q.ttl = r.ttl

\* C14 witness: a list_records returned whose response named a stored Record
\* with another name, type and ttl than the stored ones
C14_Witness ==
    \E c \in Callers :
        /\ Returned(c, "list_records")
        /\ \E k \in LastEntries(last[c].f.nodes) :
             \E r \in last[c].f.preRecords :
                 /\ r.zone = last[c].f.zone.id
                 /\ r.record_id = last[c].f.nodes[k].id
                 /\ r.name # last[c].f.nodes[k].name
                 /\ r.type # last[c].f.nodes[k].type
                 /\ r.ttl # last[c].f.nodes[k].ttl

\* Zone z carries the domain (with its trailing "."), type, ttl and extra of the
\* provider object node
SameZoneValues(z, node) ==
    /\ z.domain = ZoneClean(node).domain
    /\ z.type = node.type
    /\ z.ttl = node.ttl
    /\ z.extra = node.extra

\* C15 (as claimed): after a list_zones that returns, every Zone that was
\* stored before the call and whose zone_id is in the provider response has
\* the domain, type, ttl and extra the provider returned in that call.
C15_ZoneRefreshed ==
    \A c \in Callers :
        Returned(c, "list_zones") =>
          \A k \in LastEntries(last[c].f.nodes) :
            \A z \in last[c].f.preZones :
              (z.cloud = TheCloud /\ z.zone_id = last[c].f.nodes[k].id) =>
                \E q \in zones : q.id = z.id /\ SameZoneValues(q, last[c].f.nodes[k])

\* C15 (amended): list_zones does not mutate a stored Zone.  After a
\* list_zones that returns, every Zone that was stored before the call is
\* stored unchanged, whatever the provider returned for its zone_id, and the
\* entry returned for that zone_id carries the stored values.
C15_StoredZoneKept ==
    \A c \in Callers :
        Returned(c, "list_zones") =>
          /\ last[c].f.preZones \subseteq zones
          /\ \A k \in 1..Len(last[c].f.nodes) :
               \A z \in last[c].f.preZones :
                 (z.cloud = TheCloud /\ z.zone_id = last[c].f.nodes[k].id) =>
                   last[c].ret[k] = ZoneDict(z)

\* C15 witness: a list_zones returned whose response gave other values for a
\* stored Zone than the stored ones
C15_Witness ==
    \E c \in Callers :
        /\ Returned(c, "list_zones")
        /\ \E k \in 1..Len(last[c].f.nodes) :
             \E z \in last[c].f.preZones :
                 /\ z.cloud = TheCloud
                 /\ z.zone_id = last[c].f.nodes[k].id
                 /\ ~SameZoneValues(z, last[c].f.nodes[k])

\* the record ids of a provider response
NodeIds(nodes) == {nodes[k].id : k \in 1..Len(nodes)}

C18_OnlyListedReturned ==
    \A c \in Callers :
        Returned(c, "list_records") =>
          \A k \in 1..Len(last[c].ret) :
            last[c].ret[k].record_id \in NodeIds(last[c].f.nodes)

\* the Records of the zone of c's last call that were stored and not deleted
\* before it and that its provider response did not name
Unlisted(c) ==
    {r \in last[c].f.preRecords :
        /\ r.zone = last[c].f.zone.id
        /\ r.deleted = NotDeleted
        /\ r.record_id \notin NodeIds(last[c].f.nodes)}

\* C18 (amended): every record a list_records returns is a stored, non-deleted
\* Record of the zone whose record_id is in the provider response of that call
\* or which was stored and not deleted before the call; a stored non-deleted
\* Record the provider no longer returns is part of the result, exactly once
\* and as stored.
C18_StoreIsReturned ==
    \A c \in Callers :
        Returned(c, "list_records") =>
          /\ \A k \in 1..Len(last[c].ret) :
               /\ \E q \in records :
                    /\ q.id = last[c].ret[k].id
                    /\ q.zone = last[c].f.zone.id
                    /\ q.deleted = NotDeleted
               /\ \/ last[c].ret[k].record_id \in NodeIds(last[c].f.nodes)
                  \/ \E r \in Unlisted(c) : r.id = last[c].ret[k].id
          /\ \A r \in Unlisted(c) :
               Cardinality({k \in 1..Len(last[c].ret) :
                              last[c].ret[k] = RecordDict(r)}) = 1

\* C18 witness: a list_records returned for a zone with a stored, non-deleted
\* Record that the provider response did not name
C18_Witness ==
    \E c \in Callers : Returned(c, "list_records") /\ Unlisted(c) # {}

(***************************************************************************)
(* Record.save() on its own: the validation of Record.clean on a record    *)
(* built with any type and rdata.                                          *)
(***************************************************************************)
RecordTypes == {"A", "AAAA", "CNAME", "TXT"}

RdataValues ==
    {Str_ip4, Str_ip4_bad, Str_ip4_big, Str_ip6, Str_ip6_bad, Str_a, Str_a_dot}

\* record.save() of a new Record
RecordSaveCall(c) ==
    /\ pc[c] = "rec_save"
    /\ LET fr == frame[c]
           res == RecordSave(records, fr.rec, fr.rec, TRUE)
       IN  IF res.fault # ""
           THEN Raise(c, fr, res.fault) /\ UNCHANGED records
           ELSE records' = res.rows /\ Return(c, [fr EXCEPT !.out = <<res.doc>>], <<>>)
    /\ UNCHANGED <<zones, now>>

InitClean ==
    /\ zones = {StoredZone}
    /\ records = {}
    /\ now = 1
    /\ active = {1}
    /\ ncalls = [c \in Callers |-> 0]
    /\ last = [c \in Callers |-> NoLast]
    /\ pc = [c \in Callers |-> IF c = 1 THEN "rec_save" ELSE "idle"]
    /\ \E type \in RecordTypes, rdata \in SeqsUpTo(RdataValues, MaxRdata) :
         frame = [c \in Callers |->
                    IF c = 1
                    THEN [IdleFrame EXCEPT
                            !.op = "save",
                            !.rec = [Record("r1", "www", type, 300, StoredZone)
                                       EXCEPT !.rdata = rdata]]
                    ELSE IdleFrame]
    /\ InitNet

NextClean == \E c \in Callers : RecordSaveCall(c)

SpecClean == InitClean /\ [][NextClean]_vars

\* the address family a record type asks for
FamilyOk(type, s) == IF type = "A" THEN IsIPv4(s) ELSE IsIPv6(s)

\* C6 (as claimed): a saved Record of type A or AAAA has exactly one rdata
\* element, an address of the matching family; saving any other A or AAAA
\* Record raises a validation fault and persists nothing.
C6_AddressRecords ==
    \A c \in Callers :
        (last[c].f.op = "save" /\ last[c].f.rec.type \in {"A", "AAAA"}) =>
          LET rec == last[c].f.rec
              good == Len(rec.rdata) = 1 /\ FamilyOk(rec.type, rec.rdata[1])
          IN  IF good
              THEN last[c].status = "ok"
              ELSE /\ last[c].status = "fault"
                   /\ last[c].fault = "ValidationError"
                   /\ records = {}

\* C7: a saved Record of type CNAME has exactly one rdata element, which ends
\* with "."; a value that ended with "." is stored as given, any other with one
\* "." appended.
C7_CnameTrailingDot ==
    /\ \A r \in records :
          r.type = "CNAME" => Len(r.rdata) = 1 /\ EndsWith(r.rdata[1], ".")
    /\ \A c \in Callers :
          (Returned(c, "save") /\ last[c].f.rec.type = "CNAME") =>
            LET given == last[c].f.rec.rdata
                kept == last[c].f.out[1].rdata
            IN  /\ Len(given) = 1
                /\ kept = IF EndsWith(given[1], ".") THEN given
                          ELSE <<Append(given[1], ".")>>
                /\ \E r \in records : r.rdata = kept

\* C7 witness: a CNAME whose value had no trailing "." was saved
C7_Witness ==
    \E c \in Callers :
        /\ Returned(c, "save")
        /\ last[c].f.rec.type = "CNAME"
        /\ ~EndsWith(last[c].f.rec.rdata[1], ".")
        /\ records # {}

(***************************************************************************)
(* Two callers listing against the same store.                             *)
(***************************************************************************)
InitConc ==
    /\ zones = {StoredZone}
    /\ records = {}
    /\ now = 1
    /\ pc = [c \in Callers |-> "idle"]
    /\ frame = [c \in Callers |-> IdleFrame]
    /\ last = [c \in Callers |-> NoLast]
    /\ ncalls = [c \in Callers |-> 0]
    /\ active = Callers
    /\ InitNet

NextConc ==
    \E c \in Callers :
        \/ CallListZones(c)
        \/ ListZonesFetch(c)
        \/ ListZonesGet(c)
        \/ ListZonesSave(c)
        \/ ListZonesReturn(c)
        \/ \E z \in zones : CallListRecords(c, z)
        \/ ListRecordsFetch(c)
        \/ ListRecordsGet(c)
        \/ ListRecordsSave(c)
        \/ ListRecordsReturn(c)

SpecConc == InitConc /\ [][NextConc]_vars

\* C10: under every interleaving of two listing callers the store never holds
\* two Zones with one (cloud, zone_id) nor two Records with one (zone,
\* record_id), and a call that ended with the store's NotUniqueError left the
\* key it was inserting stored exactly once.
C10_NoDuplicateUnderRace ==
    /\ \A z1, z2 \in zones :
          (z1.cloud = z2.cloud /\ z1.zone_id = z2.zone_id) => z1.id = z2.id
    /\ \A r1, r2 \in records :
          (r1.zone = r2.zone /\ r1.record_id = r2.record_id) => r1.id = r2.id
    /\ \A c \in Callers :
          (last[c].status = "fault" /\ last[c].fault = "NotUniqueError") =>
            LET fr == last[c].f
                key == fr.nodes[fr.i].id
            IN  IF fr.op = "list_zones"
                THEN Cardinality(ZonesWithKey(key)) = 1
                ELSE Cardinality(RecordsWithKey(fr.zone, key)) = 1

\* C10 witness: both callers found a zone id absent, both inserted, and the
\* second insert ended in NotUniqueError
C10_Witness ==
    \E c, d \in Callers :
        /\ c # d
        /\ last[c].status = "fault" /\ last[c].fault = "NotUniqueError"
        /\ last[c].f.op = "list_zones"
        /\ Returned(d, "list_zones")
        /\ \E k \in 1..Len(last[d].f.nodes) :
             /\ last[d].f.nodes[k].id = last[c].f.nodes[last[c].f.i].id
             /\ last[d].f.nodes[k].id \notin
                  {z.zone_id : z \in last[d].f.preZones \cup last[c].f.preZones}

(***************************************************************************)
(* The network controllers on their own.                                   *)
(***************************************************************************)
InitNetOnly ==
    /\ InitNet
    /\ zones = {}
    /\ records = {}
    /\ now = 1
    /\ pc = [c \in Callers |-> "idle"]
    /\ frame = [c \in Callers |-> IdleFrame]
    /\ last = [c \in Callers |-> NoLast]
    /\ ncalls = [c \in Callers |-> 0]
    /\ active = {}

NextNet ==
    \/ \E p \in Providers, network \in NetworkSpecs, subnet \in SubnetSpecs,
          oc \in [create : Outcomes, subnet : Outcomes, delete : Outcomes] :
         CreateNetwork(p, network, subnet, oc)
    \/ \E p \in Providers, subnet \in SubnetSpecs, parent \in networks,
          oc \in [create : {"ok"}, subnet : Outcomes, delete : {"ok"}] :
         CreateSubnet(p, subnet, parent, oc)
    \/ \E id \in networks, outcome \in {"ok", "raise_list", "raise_network"} :
         DeleteNetwork(id, outcome)

SpecNet == InitNetOnly /\ [][NextNet]_vars

\* the last create_network made its network and then failed on the subnet
SubnetStepFailed ==
    /\ netLast.op = "create_network"
    /\ netLast.subnet # {}
    /\ "ex_create_network" \in {netLast.calls[k] : k \in 1..Len(netLast.calls)}
    /\ netLast.oc.create = "ok"
    /\ netLast.fault # ""

\* C1 (as claimed): when create_network made the network and the subnet step
\* failed, the network no longer exists at the provider and the fault raised
\* is NetworkError.
C1_RollbackOnSubnetFailure ==
    SubnetStepFailed =>
        /\ netLast.id \notin networks
        /\ netLast.fault = "NetworkError"

\* the keys a subnet spec must have for the provider
RequiredOfSubnet(p) ==
    IF p = "ec2" THEN {"cidr", "availability_zone"} ELSE {"cidr"}

\* C11 (as claimed): create_subnet with a subnet spec that lacks cidr (for EC2
\* also one that lacks availability_zone) raises RequiredParameterMissingError
\* naming a missing field and makes no call to the provider.
C11_MissingSubnetParameter ==
    (/\ netLast.op = "create_subnet"
     /\ ~(RequiredOfSubnet(netLast.provider) \subseteq netLast.subnet))
    => /\ netLast.fault = "RequiredParameterMissingError"
       /\ netLast.param \in RequiredOfSubnet(netLast.provider) \ netLast.subnet
       /\ netLast.calls = <<>>

====
